---- MODULE Spec2Model ----
(***************************************************************************)
(* RISC-V binary emission (lib/cretonne/src/isa/riscv/binemit.rs).         *)
(*                                                                         *)
(* The field packers put_r, put_rshamt, put_i, put_u, put_sb build one     *)
(* 32-bit word and hand it to the code sink; the recipes recipe_* match    *)
(* an instruction's format, resolve its operands to registers and call a   *)
(* packer, the branch recipes after recording a relocation.                *)
(*                                                                         *)
(* A u32 is a bit vector over 0..31 and an i64 a bit vector over 0..63,    *)
(* bit 0 the least significant, so that shifts, casts and masks keep the   *)
(* width they have in the source.                                          *)
(***************************************************************************)
EXTENDS Integers, Sequences, FiniteSets, TLC

VARIABLES sink, status, log, call

vars == <<sink, status, log, call>>

(***************************************************************************)
(* Fixed-width integers                                                    *)
(***************************************************************************)

\* bit k of the natural number n < 2^31
Bit(n, k) == IF k > 30 THEN 0 ELSE (n \div (2 ^ k)) % 2

\* `n as u32` for a u16 or a literal n: zero extension
u32(n) == [k \in 0..31 |-> Bit(n, k)]

\* the i64 whose four 16-bit limbs are l3 (most significant) .. l0
i64(l3, l2, l1, l0) ==
    [k \in 0..63 |-> Bit(<<l0, l1, l2, l3>>[(k \div 16) + 1], k % 16)]

\* `v as u32` for an i64 v: truncation to the low 32 bits
as_u32(v) == [k \in 0..31 |-> v[k]]

\* `a << n` on a u32
shl(a, n) == [k \in 0..31 |-> IF k >= n THEN a[k - n] ELSE 0]

\* `a >> n` on a u32
shr(a, n) == [k \in 0..31 |-> IF k + n <= 31 THEN a[k + n] ELSE 0]

\* `v << n` on an i64 (n < 64: no shift overflow)
shl64(v, n) == [k \in 0..63 |-> IF k >= n THEN v[k - n] ELSE 0]

\* `a & b`
bitand(a, b) == [k \in DOMAIN a |-> IF a[k] = 1 /\ b[k] = 1 THEN 1 ELSE 0]

\* `a | b`
bitor(a, b) == [k \in DOMAIN a |-> IF a[k] = 1 \/ b[k] = 1 THEN 1 ELSE 0]

\* the literal 0xfffff000
hex_fffff000 == [k \in 0..31 |-> IF k >= 12 THEN 1 ELSE 0]

\* the number held by bits lo..hi of a bit vector (hi - lo < 31)
RECURSIVE Field(_, _, _)
Field(w, lo, hi) ==
    IF hi < lo THEN 0 ELSE w[lo] + 2 * Field(w, lo + 1, hi)

(***************************************************************************)
(* The code sink: words and relocation records, append only                *)
(***************************************************************************)

EmptySink == [data |-> <<>>, relocs |-> <<>>]

\* CodeSink::offset: the current write offset in bytes
offset(s) == 4 * Len(s.data)

\* CodeSink::put4: append one 4-byte word
put4(s, i) == [s EXCEPT !.data = Append(@, i)]

\* CodeSink::reloc_ebb: record a relocation at the current write offset
reloc_ebb(s, reloc, ebb) ==
    [s EXCEPT !.relocs = Append(@, [offset |-> offset(s),
                                    reloc  |-> reloc,
                                    ebb    |-> ebb])]

(***************************************************************************)
(* Relocation kinds                                                        *)
(***************************************************************************)

\* RelocKind::Branch as u16
RelocKind_Branch == 0

RELOC_NAMES == <<"Branch">>

\* impl Into<Reloc> for RelocKind
into(kind) == kind

(***************************************************************************)
(* Field packers                                                           *)
(***************************************************************************)

\* put_r with the mask of rs2 left out
put_r_rs2_unmasked(bits_, rs1_, rs2_, rd_, s) ==
    LET bits    == u32(bits_)
        opcode5 == bitand(bits, u32(31))
        funct3  == bitand(shr(bits, 5), u32(7))
        funct7  == bitand(shr(bits, 8), u32(127))
        rs1     == bitand(u32(rs1_), u32(31))
        rs2     == u32(rs2_)
        rd      == bitand(u32(rd_), u32(31))
        i0      == u32(3)
        i1      == bitor(i0, shl(opcode5, 2))
        i2      == bitor(i1, shl(rd, 7))
        i3      == bitor(i2, shl(funct3, 12))
        i4      == bitor(i3, shl(rs1, 15))
        i5      == bitor(i4, shl(rs2, 20))
        i6      == bitor(i5, shl(funct7, 25))
    IN  put4(s, i6)

put_r(bits_, rs1_, rs2_, rd_, s) ==
    LET bits    == u32(bits_)
        opcode5 == bitand(bits, u32(31))
        funct3  == bitand(shr(bits, 5), u32(7))
        funct7  == bitand(shr(bits, 8), u32(127))
        rs1     == bitand(u32(rs1_), u32(31))
        rs2     == bitand(u32(rs2_), u32(31))
        rd      == bitand(u32(rd_), u32(31))
        i0      == u32(3)
        i1      == bitor(i0, shl(opcode5, 2))
        i2      == bitor(i1, shl(rd, 7))
        i3      == bitor(i2, shl(funct3, 12))
        i4      == bitor(i3, shl(rs1, 15))
        i5      == bitor(i4, shl(rs2, 20))
        i6      == bitor(i5, shl(funct7, 25))
    IN  put4(s, i6)

\* put_rshamt with the shift amount masked to 5 bits
put_rshamt_mask5(bits_, rs1_, shamt_, rd_, s) ==
    LET bits    == u32(bits_)
        opcode5 == bitand(bits, u32(31))
        funct3  == bitand(shr(bits, 5), u32(7))
        funct7  == bitand(shr(bits, 8), u32(127))
        rs1     == bitand(u32(rs1_), u32(31))
        shamt   == bitand(as_u32(shamt_), u32(31))
        rd      == bitand(u32(rd_), u32(31))
        i0      == u32(3)
        i1      == bitor(i0, shl(opcode5, 2))
        i2      == bitor(i1, shl(rd, 7))
        i3      == bitor(i2, shl(funct3, 12))
        i4      == bitor(i3, shl(rs1, 15))
        i5      == bitor(i4, shl(shamt, 20))
        i6      == bitor(i5, shl(funct7, 25))
    IN  put4(s, i6)

put_rshamt(bits_, rs1_, shamt_, rd_, s) ==
    LET bits    == u32(bits_)
        opcode5 == bitand(bits, u32(31))
        funct3  == bitand(shr(bits, 5), u32(7))
        funct7  == bitand(shr(bits, 8), u32(127))
        rs1     == bitand(u32(rs1_), u32(31))
        shamt   == bitand(as_u32(shamt_), u32(63))
        rd      == bitand(u32(rd_), u32(31))
        i0      == u32(3)
        i1      == bitor(i0, shl(opcode5, 2))
        i2      == bitor(i1, shl(rd, 7))
        i3      == bitor(i2, shl(funct3, 12))
        i4      == bitor(i3, shl(rs1, 15))
        i5      == bitor(i4, shl(shamt, 20))
        i6      == bitor(i5, shl(funct7, 25))
    IN  put4(s, i6)

put_i(bits_, rs1_, imm, rd_, s) ==
    LET bits    == u32(bits_)
        opcode5 == bitand(bits, u32(31))
        funct3  == bitand(shr(bits, 5), u32(7))
        rs1     == bitand(u32(rs1_), u32(31))
        rd      == bitand(u32(rd_), u32(31))
        i0      == u32(3)
        i1      == bitor(i0, shl(opcode5, 2))
        i2      == bitor(i1, shl(rd, 7))
        i3      == bitor(i2, shl(funct3, 12))
        i4      == bitor(i3, shl(rs1, 15))
        i5      == bitor(i4, as_u32(shl64(imm, 20)))
    IN  put4(s, i5)

\* put_u with the mask applied to the whole word: (i | imm as u32) & 0xfffff000
put_u_mask_all(bits_, imm, rd_, s) ==
    LET bits    == u32(bits_)
        opcode5 == bitand(bits, u32(31))
        rd      == bitand(u32(rd_), u32(31))
        i0      == u32(3)
        i1      == bitor(i0, shl(opcode5, 2))
        i2      == bitor(i1, shl(rd, 7))
        i3      == bitand(bitor(i2, as_u32(imm)), hex_fffff000)
    IN  put4(s, i3)

\* put_u with the mask left out: i |= imm as u32
put_u_unmasked(bits_, imm, rd_, s) ==
    LET bits    == u32(bits_)
        opcode5 == bitand(bits, u32(31))
        rd      == bitand(u32(rd_), u32(31))
        i0      == u32(3)
        i1      == bitor(i0, shl(opcode5, 2))
        i2      == bitor(i1, shl(rd, 7))
        i3      == bitor(i2, as_u32(imm))
    IN  put4(s, i3)

\* put_u shifting the immediate into place: (imm << 12) as u32 & 0xfffff000
put_u_shifted(bits_, imm, rd_, s) ==
    LET bits    == u32(bits_)
        opcode5 == bitand(bits, u32(31))
        rd      == bitand(u32(rd_), u32(31))
        i0      == u32(3)
        i1      == bitor(i0, shl(opcode5, 2))
        i2      == bitor(i1, shl(rd, 7))
        i3      == bitor(i2, bitand(as_u32(shl64(imm, 12)), hex_fffff000))
    IN  put4(s, i3)

put_u(bits_, imm, rd_, s) ==
    LET bits    == u32(bits_)
        opcode5 == bitand(bits, u32(31))
        rd      == bitand(u32(rd_), u32(31))
        i0      == u32(3)
        i1      == bitor(i0, shl(opcode5, 2))
        i2      == bitor(i1, shl(rd, 7))
        i3      == bitor(i2, bitand(as_u32(imm), hex_fffff000))
    IN  put4(s, i3)

put_sb(bits_, rs1_, rs2_, s) ==
    LET bits    == u32(bits_)
        opcode5 == bitand(bits, u32(31))
        funct3  == bitand(shr(bits, 5), u32(7))
        rs1     == bitand(u32(rs1_), u32(31))
        rs2     == bitand(u32(rs2_), u32(31))
        i0      == u32(3)
        i1      == bitor(i0, shl(opcode5, 2))
        i2      == bitor(i1, shl(funct3, 12))
        i3      == bitor(i2, shl(rs1, 15))
        i4      == bitor(i3, shl(rs2, 20))
    IN  put4(s, i4)

(***************************************************************************)
(* Packer inputs                                                           *)
(***************************************************************************)

\* encoding descriptors (u16): opcode[6:2] | funct3 << 5 | funct7 << 8
Bits16 == {0, 12, 13, 31, 224, 256, 16384, 32512, 32768, 65535}

\* register units (u16), in and out of the 5-bit range
Regs == {0, 1, 2, 3, 5, 31, 32, 37, 65535}

\* i64 immediates: 0, 1, 31, 32, 33, 63, 64, 0x7ff, 0x800, 0xfff, 0x1000,
\* 0x12345678, 0x12345fff, 0x1_0000_0000, 0xffff_ffff_1234_5678, -1, i64::MIN
Imms ==
    { i64(0, 0, 0, l0) : l0 \in {0, 1, 31, 32, 33, 63, 64, 2047, 2048, 4095, 4096} }
    \cup { i64(0, 0, 4660, 22136), i64(0, 0, 4660, 24575), i64(0, 1, 0, 0),
           i64(65535, 65535, 4660, 22136), i64(65535, 65535, 65535, 65535),
           i64(32768, 0, 0, 0) }

Zero64 == i64(0, 0, 0, 0)

NoCall == [fn |-> "none", bits |-> 0, rs1 |-> 0, rs2 |-> 0, rd |-> 0, imm |-> Zero64]

PackCalls ==
    { [fn |-> "put_r", bits |-> b, rs1 |-> r1, rs2 |-> r2, rd |-> d, imm |-> Zero64] :
        b \in Bits16, r1 \in Regs, r2 \in Regs, d \in Regs }
    \cup
    { [fn |-> f, bits |-> b, rs1 |-> r1, rs2 |-> 0, rd |-> d, imm |-> m] :
        f \in {"put_rshamt", "put_i"}, b \in Bits16, r1 \in Regs, d \in Regs, m \in Imms }
    \cup
    { [fn |-> "put_u", bits |-> b, rs1 |-> 0, rs2 |-> 0, rd |-> d, imm |-> m] :
        b \in Bits16, d \in Regs, m \in Imms }
    \cup
    { [fn |-> "put_sb", bits |-> b, rs1 |-> r1, rs2 |-> r2, rd |-> 0, imm |-> Zero64] :
        b \in Bits16, r1 \in Regs, r2 \in Regs }

(***************************************************************************)
(* One packer applied to a fresh sink                                      *)
(***************************************************************************)

InitPack ==
    /\ sink = EmptySink
    /\ status = "ok"
    /\ log = <<>>
    /\ call \in PackCalls

call_put_r ==
    /\ call.fn = "put_r" /\ sink = EmptySink
    /\ sink' = put_r(call.bits, call.rs1, call.rs2, call.rd, sink)
    /\ UNCHANGED <<status, log, call>>

call_put_rshamt ==
    /\ call.fn = "put_rshamt" /\ sink = EmptySink
    /\ sink' = put_rshamt(call.bits, call.rs1, call.imm, call.rd, sink)
    /\ UNCHANGED <<status, log, call>>

call_put_i ==
    /\ call.fn = "put_i" /\ sink = EmptySink
    /\ sink' = put_i(call.bits, call.rs1, call.imm, call.rd, sink)
    /\ UNCHANGED <<status, log, call>>

call_put_u ==
    /\ call.fn = "put_u" /\ sink = EmptySink
    /\ sink' = put_u(call.bits, call.imm, call.rd, sink)
    /\ UNCHANGED <<status, log, call>>

call_put_sb ==
    /\ call.fn = "put_sb" /\ sink = EmptySink
    /\ sink' = put_sb(call.bits, call.rs1, call.rs2, sink)
    /\ UNCHANGED <<status, log, call>>

NextPack ==
    \/ call_put_r
    \/ call_put_rshamt
    \/ call_put_i
    \/ call_put_u
    \/ call_put_sb

SpecPack == InitPack /\ [][NextPack]_vars

\* the word a packer has passed to the sink
Packed(fn) == call.fn = fn /\ Len(sink.data) = 1

Word == sink.data[1]

(***************************************************************************)
(* The function being compiled                                             *)
(***************************************************************************)

\* ValueLoc: Reg(RegUnit), Stack(StackSlot) or Unassigned
Reg(ru) == [kind |-> "Reg", unit |-> ru]

Stack(ss) == [kind |-> "Stack", unit |-> ss]

Unassigned == [kind |-> "Unassigned", unit |-> 0]

\* ValueLoc::unwrap_reg panics unless the location is a register
is_reg(loc) == loc.kind = "Reg"

unwrap_reg(loc) == loc.unit

\* InstructionData with the encoding and the first result of the instruction.
\* The argument list is args; BinaryImm and IntCompareImm hold their single
\* arg as args[1].
Data(format, args, imm, destination, result, bits) ==
    [format |-> format, args |-> args, imm |-> imm,
     destination |-> destination, result |-> result, bits |-> bits]

\* values 1..8 and where the register allocator put them
ValueLocs == <<Reg(1), Reg(2), Reg(3), Reg(5), Reg(37), Reg(0), Stack(0), Unassigned>>

InstTable == <<
    Data("Binary",        <<1, 2>>,    Zero64,                         "none", 3, 12),
    Data("Binary",        <<5, 7>>,    Zero64,                         "none", 3, 8204),
    Data("Binary",        <<1, 2>>,    Zero64,                         "none", 8, 12),
    Data("IntCompare",    <<1, 5>>,    Zero64,                         "none", 4, 76),
    Data("BinaryImm",     <<1>>,       i64(0, 0, 0, 33),               "none", 3, 36),
    Data("BinaryImm",     <<5>>,       i64(65535, 65535, 65535, 65535), "none", 6, 8356),
    Data("BinaryImm",     <<7>>,       i64(0, 0, 0, 1),                "none", 3, 4),
    Data("IntCompareImm", <<2>>,       i64(0, 0, 0, 2048),             "none", 6, 68),
    Data("UnaryImm",      <<>>,        i64(0, 0, 4660, 22136),         "none", 4, 13),
    Data("UnaryImm",      <<>>,        i64(65535, 65535, 4660, 24575), "none", 5, 32749),
    Data("UnaryImm",      <<>>,        i64(65535, 65535, 65535, 65535), "none", 6, 5),
    Data("UnaryImm",      <<>>,        i64(0, 1, 0, 4095),             "none", 8, 13),
    Data("BranchIcmp",    <<1, 2>>,    Zero64,                         "ebb1", 0, 24),
    Data("BranchIcmp",    <<5, 6, 3>>, Zero64,                         "ebb2", 0, 56),
    Data("BranchIcmp",    <<1, 7>>,    Zero64,                         "ebb1", 0, 24),
    Data("BranchIcmp",    <<1>>,       Zero64,                         "ebb1", 0, 24),
    Data("Branch",        <<5>>,       Zero64,                         "ebb2", 0, 56),
    Data("Branch",        <<1>>,       Zero64,                         "ebb1", 0, 56),
    Data("Branch",        <<1, 7, 2>>, Zero64,                         "ebb1", 0, 56),
    Data("Branch",        <<8>>,       Zero64,                         "ebb1", 0, 24),
    Data("Branch",        <<>>,        Zero64,                         "ebb1", 0, 24),
    Data("MultiAry",      <<1>>,       Zero64,                         "none", 0, 25) >>

func ==
    [dfg       |-> InstTable,
     encodings |-> [i \in DOMAIN InstTable |-> InstTable[i].bits],
     results   |-> [i \in DOMAIN InstTable |-> InstTable[i].result],
     locations |-> ValueLocs]

Insts == DOMAIN InstTable

\* func.dfg.first_result(inst)
first_result(f, inst) == f.results[inst]

(***************************************************************************)
(* Recipes: the sink a call leaves behind and how the call ended           *)
(***************************************************************************)

Ok(s) == [sink |-> s, status |-> "ok"]

Panic(s, why) == [sink |-> s, status |-> why]

recipe_r(f, inst, s) ==
    IF f.dfg[inst].format = "Binary"
    THEN LET args == f.dfg[inst].args
             a0   == f.locations[args[1]]
             a1   == f.locations[args[2]]
             r    == f.locations[first_result(f, inst)]
         IN  IF is_reg(a0) /\ is_reg(a1) /\ is_reg(r)
             THEN Ok(put_r(f.encodings[inst], unwrap_reg(a0), unwrap_reg(a1),
                           unwrap_reg(r), s))
             ELSE Panic(s, "not_register")
    ELSE Panic(s, "format_mismatch")

\* recipe_ricmp matching the Binary format, as recipe_r does
recipe_ricmp_binary(f, inst, s) ==
    IF f.dfg[inst].format = "Binary"
    THEN LET args == f.dfg[inst].args
             a0   == f.locations[args[1]]
             a1   == f.locations[args[2]]
             r    == f.locations[first_result(f, inst)]
         IN  IF is_reg(a0) /\ is_reg(a1) /\ is_reg(r)
             THEN Ok(put_r(f.encodings[inst], unwrap_reg(a0), unwrap_reg(a1),
                           unwrap_reg(r), s))
             ELSE Panic(s, "not_register")
    ELSE Panic(s, "format_mismatch")

recipe_ricmp(f, inst, s) ==
    IF f.dfg[inst].format = "IntCompare"
    THEN LET args == f.dfg[inst].args
             a0   == f.locations[args[1]]
             a1   == f.locations[args[2]]
             r    == f.locations[first_result(f, inst)]
         IN  IF is_reg(a0) /\ is_reg(a1) /\ is_reg(r)
             THEN Ok(put_r(f.encodings[inst], unwrap_reg(a0), unwrap_reg(a1),
                           unwrap_reg(r), s))
             ELSE Panic(s, "not_register")
    ELSE Panic(s, "format_mismatch")

recipe_rshamt(f, inst, s) ==
    IF f.dfg[inst].format = "BinaryImm"
    THEN LET arg == f.locations[f.dfg[inst].args[1]]
             imm == f.dfg[inst].imm
             r   == f.locations[first_result(f, inst)]
         IN  IF is_reg(arg) /\ is_reg(r)
             THEN Ok(put_rshamt(f.encodings[inst], unwrap_reg(arg), imm,
                                unwrap_reg(r), s))
             ELSE Panic(s, "not_register")
    ELSE Panic(s, "format_mismatch")

recipe_i(f, inst, s) ==
    IF f.dfg[inst].format = "BinaryImm"
    THEN LET arg == f.locations[f.dfg[inst].args[1]]
             imm == f.dfg[inst].imm
             r   == f.locations[first_result(f, inst)]
         IN  IF is_reg(arg) /\ is_reg(r)
             THEN Ok(put_i(f.encodings[inst], unwrap_reg(arg), imm,
                           unwrap_reg(r), s))
             ELSE Panic(s, "not_register")
    ELSE Panic(s, "format_mismatch")

recipe_iicmp(f, inst, s) ==
    IF f.dfg[inst].format = "IntCompareImm"
    THEN LET arg == f.locations[f.dfg[inst].args[1]]
             imm == f.dfg[inst].imm
             r   == f.locations[first_result(f, inst)]
         IN  IF is_reg(arg) /\ is_reg(r)
             THEN Ok(put_i(f.encodings[inst], unwrap_reg(arg), imm,
                           unwrap_reg(r), s))
             ELSE Panic(s, "not_register")
    ELSE Panic(s, "format_mismatch")

recipe_iret(f, inst, s) == Panic(s, "unimplemented")

recipe_u(f, inst, s) ==
    IF f.dfg[inst].format = "UnaryImm"
    THEN LET imm == f.dfg[inst].imm
             r   == f.locations[first_result(f, inst)]
         IN  IF is_reg(r)
             THEN Ok(put_u(f.encodings[inst], imm, unwrap_reg(r), s))
             ELSE Panic(s, "not_register")
    ELSE Panic(s, "format_mismatch")

\* recipe_sb recording the relocation after the word is emitted
recipe_sb_word_first(f, inst, s) ==
    IF f.dfg[inst].format = "BranchIcmp"
    THEN IF Len(f.dfg[inst].args) < 2
         THEN Panic(s, "slice_index")
         ELSE LET args == SubSeq(f.dfg[inst].args, 1, 2)
                  a0   == f.locations[args[1]]
                  a1   == f.locations[args[2]]
              IN  IF is_reg(a0) /\ is_reg(a1)
                  THEN Ok(reloc_ebb(put_sb(f.encodings[inst], unwrap_reg(a0),
                                           unwrap_reg(a1), s),
                                    into(RelocKind_Branch), f.dfg[inst].destination))
                  ELSE Panic(s, "not_register")
    ELSE Panic(s, "format_mismatch")

\* the relocation is recorded before the operands of put_sb are resolved
recipe_sb(f, inst, s) ==
    IF f.dfg[inst].format = "BranchIcmp"
    THEN IF Len(f.dfg[inst].args) < 2
         THEN Panic(s, "slice_index")
         ELSE LET args == SubSeq(f.dfg[inst].args, 1, 2)
                  s1   == reloc_ebb(s, into(RelocKind_Branch), f.dfg[inst].destination)
                  a0   == f.locations[args[1]]
                  a1   == f.locations[args[2]]
              IN  IF is_reg(a0) /\ is_reg(a1)
                  THEN Ok(put_sb(f.encodings[inst], unwrap_reg(a0), unwrap_reg(a1), s1))
                  ELSE Panic(s1, "not_register")
    ELSE Panic(s, "format_mismatch")

\* recipe_sbzero without the relocation
recipe_sbzero_noreloc(f, inst, s) ==
    IF f.dfg[inst].format = "Branch"
    THEN IF Len(f.dfg[inst].args) < 1
         THEN Panic(s, "slice_index")
         ELSE LET args == SubSeq(f.dfg[inst].args, 1, 1)
                  a0   == f.locations[args[1]]
              IN  IF is_reg(a0)
                  THEN Ok(put_sb(f.encodings[inst], unwrap_reg(a0), 0, s))
                  ELSE Panic(s, "not_register")
    ELSE Panic(s, "format_mismatch")

\* recipe_sbzero with the operand in the second register slot
recipe_sbzero_swapped(f, inst, s) ==
    IF f.dfg[inst].format = "Branch"
    THEN IF Len(f.dfg[inst].args) < 1
         THEN Panic(s, "slice_index")
         ELSE LET args == SubSeq(f.dfg[inst].args, 1, 1)
                  s1   == reloc_ebb(s, into(RelocKind_Branch), f.dfg[inst].destination)
                  a0   == f.locations[args[1]]
              IN  IF is_reg(a0)
                  THEN Ok(put_sb(f.encodings[inst], 0, unwrap_reg(a0), s1))
                  ELSE Panic(s1, "not_register")
    ELSE Panic(s, "format_mismatch")

recipe_sbzero(f, inst, s) ==
    IF f.dfg[inst].format = "Branch"
    THEN IF Len(f.dfg[inst].args) < 1
         THEN Panic(s, "slice_index")
         ELSE LET args == SubSeq(f.dfg[inst].args, 1, 1)
                  s1   == reloc_ebb(s, into(RelocKind_Branch), f.dfg[inst].destination)
                  a0   == f.locations[args[1]]
              IN  IF is_reg(a0)
                  THEN Ok(put_sb(f.encodings[inst], unwrap_reg(a0), 0, s1))
                  ELSE Panic(s1, "not_register")
    ELSE Panic(s, "format_mismatch")

(***************************************************************************)
(* Recipe calls on the sink of one function                                *)
(***************************************************************************)

MaxCalls == 3

Init ==
    /\ sink = EmptySink
    /\ status = "ok"
    /\ log = <<>>
    /\ call = NoCall

\* a panic aborts the encoding of the function
Callable == status = "ok" /\ Len(log) < MaxCalls

Step(recipe, inst, res) ==
    /\ Callable
    /\ log' = Append(log, [recipe |-> recipe, inst |-> inst])
    /\ sink' = res.sink
    /\ status' = res.status
    /\ UNCHANGED call

call_recipe_r == \E inst \in Insts : Step("recipe_r", inst, recipe_r(func, inst, sink))

call_recipe_ricmp == \E inst \in Insts : Step("recipe_ricmp", inst, recipe_ricmp(func, inst, sink))

call_recipe_rshamt == \E inst \in Insts : Step("recipe_rshamt", inst, recipe_rshamt(func, inst, sink))

call_recipe_i == \E inst \in Insts : Step("recipe_i", inst, recipe_i(func, inst, sink))

call_recipe_iicmp == \E inst \in Insts : Step("recipe_iicmp", inst, recipe_iicmp(func, inst, sink))

call_recipe_iret == \E inst \in Insts : Step("recipe_iret", inst, recipe_iret(func, inst, sink))

call_recipe_u == \E inst \in Insts : Step("recipe_u", inst, recipe_u(func, inst, sink))

call_recipe_sb == \E inst \in Insts : Step("recipe_sb", inst, recipe_sb(func, inst, sink))

call_recipe_sbzero == \E inst \in Insts : Step("recipe_sbzero", inst, recipe_sbzero(func, inst, sink))

Next ==
    \/ call_recipe_r
    \/ call_recipe_ricmp
    \/ call_recipe_rshamt
    \/ call_recipe_i
    \/ call_recipe_iicmp
    \/ call_recipe_iret
    \/ call_recipe_u
    \/ call_recipe_sb
    \/ call_recipe_sbzero

Spec == Init /\ [][Next]_vars

(***************************************************************************)
(* Properties of the packers (SpecPack)                                    *)
(***************************************************************************)

opcode5_of(bits) == bits % 32

funct3_of(bits) == (bits \div 32) % 8

funct7_of(bits) == (bits \div 256) % 128

\* C1: the word put_r, put_i and put_sb pass to the sink holds every input
\* reduced modulo its field width and nothing else: 11 at bits 0-1, the
\* opcode field at 2-6, funct3 at 12-14, rd, rs1, rs2 mod 32 at 7-11, 15-19,
\* 20-24, funct7 at 25-31 (R), the immediate mod 2^12 at 20-31 (I), zero
\* displacement bits 7-11 and 25-31 (SB); opcode 0x0c, rs1 = 1, rs2 = 2,
\* rd = 3 through put_r is 0x002081B3.
C1_PackerFields ==
    /\ Packed("put_r") =>
         /\ Field(Word, 0, 1) = 3
         /\ Field(Word, 2, 6) = opcode5_of(call.bits)
         /\ Field(Word, 7, 11) = call.rd % 32
         /\ Field(Word, 12, 14) = funct3_of(call.bits)
         /\ Field(Word, 15, 19) = call.rs1 % 32
         /\ Field(Word, 20, 24) = call.rs2 % 32
         /\ Field(Word, 25, 31) = funct7_of(call.bits)
         /\ (call.bits = 12 /\ call.rs1 = 1 /\ call.rs2 = 2 /\ call.rd = 3)
                => Word = u32(2130355)
    /\ Packed("put_i") =>
         /\ Field(Word, 0, 1) = 3
         /\ Field(Word, 2, 6) = opcode5_of(call.bits)
         /\ Field(Word, 7, 11) = call.rd % 32
         /\ Field(Word, 12, 14) = funct3_of(call.bits)
         /\ Field(Word, 15, 19) = call.rs1 % 32
         /\ Field(Word, 20, 31) = Field(call.imm, 0, 11)
    /\ Packed("put_sb") =>
         /\ Field(Word, 0, 1) = 3
         /\ Field(Word, 2, 6) = opcode5_of(call.bits)
         /\ Field(Word, 7, 11) = 0
         /\ Field(Word, 12, 14) = funct3_of(call.bits)
         /\ Field(Word, 15, 19) = call.rs1 % 32
         /\ Field(Word, 20, 24) = call.rs2 % 32
         /\ Field(Word, 25, 31) = 0

\* put_r has packed registers 37, 37, 65535 under a descriptor with bit 15 set
C1_Witness ==
    /\ Packed("put_r")
    /\ call.bits = 65535 /\ call.rs1 = 37 /\ call.rs2 = 37 /\ call.rd = 65535
    /\ Field(Word, 15, 19) = 5 /\ Field(Word, 20, 24) = 5 /\ Field(Word, 7, 11) = 31

\* C4: every word a packer passes to the sink has bit 0 and bit 1 set.
C4_LowBitsSet ==
    \A fn \in {"put_r", "put_rshamt", "put_i", "put_u", "put_sb"} :
        Packed(fn) => Word[0] = 1 /\ Word[1] = 1

\* put_u has packed an all-zero descriptor, register and immediate
C4_Witness ==
    /\ Packed("put_u")
    /\ call.bits = 0 /\ call.rd = 0 /\ call.imm = Zero64
    /\ Word = u32(3)

\* C5 as stated: the word of put_rshamt holds the shift amount mod 64 at bits
\* 20-25 and funct7 at bits 25-31, with opcode, rd, funct3 and rs1 in place.
C5_Original ==
    Packed("put_rshamt") =>
        /\ Field(Word, 2, 6) = opcode5_of(call.bits)
        /\ Field(Word, 7, 11) = call.rd % 32
        /\ Field(Word, 12, 14) = funct3_of(call.bits)
        /\ Field(Word, 15, 19) = call.rs1 % 32
        /\ Field(Word, 20, 25) = Field(call.imm, 0, 5)
        /\ Field(Word, 25, 31) = funct7_of(call.bits)

\* C5 (amended): the word of put_rshamt holds the shift amount mod 32 at bits
\* 20-24 and funct7 div 2 at bits 26-31; bit 25 is the OR of bit 5 of the
\* shift amount and bit 0 of funct7; opcode at 2-6, rd mod 32 at 7-11, funct3
\* at 12-14 and rs1 mod 32 at 15-19.
C5_ShamtFields ==
    Packed("put_rshamt") =>
        /\ Field(Word, 2, 6) = opcode5_of(call.bits)
        /\ Field(Word, 7, 11) = call.rd % 32
        /\ Field(Word, 12, 14) = funct3_of(call.bits)
        /\ Field(Word, 15, 19) = call.rs1 % 32
        /\ Field(Word, 20, 24) = Field(call.imm, 0, 4)
        /\ Word[25] = (IF call.imm[5] = 1 \/ funct7_of(call.bits) % 2 = 1 THEN 1 ELSE 0)
        /\ Field(Word, 26, 31) = funct7_of(call.bits) \div 2

\* put_rshamt has packed shift amount 33 under funct7 = 0x40: bit 25 comes
\* from the shift amount alone
C5_Witness ==
    /\ Packed("put_rshamt")
    /\ call.bits = 16384 /\ call.imm = i64(0, 0, 0, 33)
    /\ Field(Word, 20, 25) = 33 /\ Field(Word, 25, 31) = 65

\* C6 as stated: bits 0-11 of the word of put_u are zero.
C6_Original == Packed("put_u") => Field(Word, 0, 11) = 0

\* C6 (amended): bits 0-11 of the word of put_u hold 11, the opcode field and
\* rd mod 32 and no bit of the immediate, whatever the low 12 bits of the
\* immediate are.
C6_LowBitsNoImm ==
    Packed("put_u") =>
        Field(Word, 0, 11) = 3 + 4 * opcode5_of(call.bits) + 128 * (call.rd % 32)

\* put_u has packed an immediate whose low 12 bits are all ones
C6_Witness ==
    /\ Packed("put_u")
    /\ Field(call.imm, 0, 11) = 4095 /\ call.rd = 5 /\ call.bits = 13
    /\ Field(Word, 0, 11) = 695

(***************************************************************************)
(* Properties of the recipes (Spec)                                        *)
(***************************************************************************)

Last == log[Len(log)]

LastData == func.dfg[Last.inst]

LastWord == sink.data[Len(sink.data)]

LastReloc == sink.relocs[Len(sink.relocs)]

Succeeded(recipe) == log # <<>> /\ status = "ok" /\ Last.recipe = recipe

BranchRecipes == {"recipe_sb", "recipe_sbzero"}

\* the format each recipe matches
Expected(recipe) ==
    CASE recipe = "recipe_r"      -> "Binary"
      [] recipe = "recipe_ricmp"  -> "IntCompare"
      [] recipe = "recipe_rshamt" -> "BinaryImm"
      [] recipe = "recipe_i"      -> "BinaryImm"
      [] recipe = "recipe_iicmp"  -> "IntCompareImm"
      [] recipe = "recipe_u"      -> "UnaryImm"
      [] recipe = "recipe_sb"     -> "BranchIcmp"
      [] recipe = "recipe_sbzero" -> "Branch"
      [] OTHER                    -> "nothing"

\* C2: a successful call of recipe_sb or recipe_sbzero adds exactly one
\* relocation, of kind Branch (ordinal 0), naming the destination of its own
\* instruction, at the write offset the sink had before the call, and exactly
\* one word, which starts at that offset.
C2_BranchReloc ==
    [][ (log' # log /\ status' = "ok" /\ Last'.recipe \in BranchRecipes) =>
          /\ sink'.relocs = Append(sink.relocs,
                                   [offset |-> 4 * Len(sink.data),
                                    reloc  |-> 0,
                                    ebb    |-> LastData'.destination])
          /\ RELOC_NAMES[LastReloc'.reloc + 1] = "Branch"
          /\ Len(sink'.data) = Len(sink.data) + 1
          /\ LastReloc'.offset = 4 * (Len(sink'.data) - 1) ]_vars

\* recipe_sb has succeeded as the second call, on the branch to ebb2
C2_Witness ==
    /\ Succeeded("recipe_sb")
    /\ Len(sink.data) = 2
    /\ LastReloc.offset = 4 /\ LastReloc.ebb = "ebb2" /\ LastData.destination = "ebb2"

\* C3: after n successful recipe calls the stream holds n words, the i-th
\* carrying the opcode field of the i-th call's instruction, and as many
\* relocations as there were calls of recipe_sb and recipe_sbzero.
C3_OneWordPerCall ==
    status = "ok" =>
        /\ Len(sink.data) = Len(log)
        /\ Len(sink.relocs) = Cardinality({i \in DOMAIN log : log[i].recipe \in BranchRecipes})
        /\ \A i \in DOMAIN log :
               Field(sink.data[i], 2, 6) = opcode5_of(func.encodings[log[i].inst])

\* recipe_sbzero, then recipe_u: two words, one relocation
C3_Witness ==
    /\ status = "ok" /\ Len(log) = 2
    /\ log[1].recipe = "recipe_sbzero" /\ log[2].recipe = "recipe_u"
    /\ Len(sink.data) = 2 /\ Len(sink.relocs) = 1

\* C7: the word of recipe_u (through put_u) holds bits 12-31 of the immediate
\* at bits 12-31, the opcode field at 2-6, rd mod 32 at 7-11 and 11 at 0-1,
\* so it depends on nothing else; immediate 0x12345678 with rd = 5 gives
\* top 20 bits 0x12345.
C7_UpperImm ==
    Succeeded("recipe_u") =>
        LET rd == unwrap_reg(func.locations[first_result(func, Last.inst)])
        IN  /\ Field(LastWord, 12, 31) = Field(LastData.imm, 12, 31)
            /\ Field(LastWord, 2, 6) = opcode5_of(LastData.bits)
            /\ Field(LastWord, 7, 11) = rd % 32
            /\ Field(LastWord, 0, 1) = 3
            /\ (LastData.imm = i64(0, 0, 4660, 22136) /\ rd = 5)
                   => Field(LastWord, 12, 31) = 74565

\* recipe_u has succeeded on immediate 0xffff_ffff_1234_5fff, rd = 37 and
\* a descriptor with all funct3 and funct7 bits set
C7_Witness ==
    /\ Succeeded("recipe_u")
    /\ LastData.imm = i64(65535, 65535, 4660, 24575) /\ LastData.bits = 32749
    /\ Field(LastWord, 12, 31) = 74565 /\ Field(LastWord, 0, 11) = 695

\* C8: the word of recipe_sbzero has 0 at bits 20-24 and the register of the
\* first argument mod 32 at bits 15-19; with the opcode field, funct3 and
\* zero displacement bits it is fixed by the descriptor and the first
\* argument alone.
C8_SbzeroFields ==
    Succeeded("recipe_sbzero") =>
        /\ Field(LastWord, 20, 24) = 0
        /\ Field(LastWord, 15, 19) = unwrap_reg(func.locations[LastData.args[1]]) % 32
        /\ Field(LastWord, 0, 1) = 3
        /\ Field(LastWord, 2, 6) = opcode5_of(LastData.bits)
        /\ Field(LastWord, 7, 11) = 0
        /\ Field(LastWord, 12, 14) = funct3_of(LastData.bits)
        /\ Field(LastWord, 25, 31) = 0

\* recipe_sbzero has succeeded on a branch with three arguments, the second
\* of them not in a register
C8_Witness ==
    /\ Succeeded("recipe_sbzero")
    /\ Len(LastData.args) = 3 /\ ~is_reg(func.locations[LastData.args[2]])
    /\ Field(LastWord, 15, 19) = 1 /\ Field(LastWord, 20, 24) = 0

\* C9: a call of a recipe on an instruction of another format than the one
\* it matches, and any call of recipe_iret, fails and leaves the sink as it
\* was.
C9_MismatchFatal ==
    [][ (log' # log /\ (\/ Last'.recipe = "recipe_iret"
                        \/ Expected(Last'.recipe) # LastData'.format)) =>
          /\ status' \in {"format_mismatch", "unimplemented"}
          /\ sink' = sink ]_vars

\* recipe_sb has failed on a Branch instruction after one emitted word
C9_Witness ==
    /\ status = "format_mismatch"
    /\ Len(log) = 2 /\ Last.recipe = "recipe_sb" /\ LastData.format = "Branch"
    /\ Len(sink.data) = 1

\* C10: every relocation record's offset is the start of a word present in
\* the stream, also after a recipe call that failed on an operand that is
\* not in a register.
C10_RelocsPointAtWords ==
    \A i \in DOMAIN sink.relocs :
        /\ sink.relocs[i].offset % 4 = 0
        /\ sink.relocs[i].offset < 4 * Len(sink.data)

====
